---- MODULE Spec2Model ----
(***************************************************************************)
(* A model of syndicate/utils.py: the process environment, the workflow    *)
(* log commands, the source-control host's object store and branch         *)
(* reference, and the operations get_posts, mark_syndicated_posts,         *)
(* commit_updated_posts, parent_sha, job_addoutput and job_getoutput, and  *)
(* the silo client's fetch and draft (syndicate/silos/dev.py).             *)
(*                                                                         *)
(* Python values are written as their literals ("None", "0", "42");        *)
(* identifiers of host objects are tuples <<kind, n>>; a missing or empty  *)
(* value (None, '') is the empty tuple.                                    *)
(***************************************************************************)
EXTENDS FiniteSets, Integers, Sequences, TLC

VARIABLES
    env,      \* os.environ of the running workflow step
    setenvs,  \* ::set-env commands printed by this step, by variable name
    host,     \* the source-control host: branch reference and objects
    attempt,  \* the job's latest commit_updated_posts call on a non-empty batch
    last,     \* the last operation: its inputs, its requests, log and outcome
    client,   \* the silo client's call: its arguments, page requests and result
    job       \* the job's output accumulator calls: what each added and printed

vars == <<env, setenvs, host, attempt, last, client, job>>

----------------------------------------------------------------------------
(* Bounds *)

\* Commits the branch may gain in one behaviour.
MaxCommits == 2

\* The most commits another writer pushes to the branch during the job.
MaxPushes == 1

----------------------------------------------------------------------------
(* Values *)

NoValue == << >>

\* Python truthiness of a literal (None, 0, '' and False are falsy).
Truthy(v) == v \notin {"None", "0", "''", "False"}

\* Truthiness of an environment value or identifier.
IsSet(v) == v # NoValue

TriggerSha == <<"commit", 0>>

EnvNames == {"GITHUB_TOKEN", "GITHUB_REPOSITORY", "GITHUB_REF", "GITHUB_SHA",
             "SYNDICATE_SHA", "SYNDICATE_POSTS"}

RequiredNames == {"GITHUB_TOKEN", "GITHUB_REPOSITORY", "GITHUB_REF", "GITHUB_SHA"}

EnvValue(name) ==
    IF name = "GITHUB_SHA" THEN TriggerSha ELSE <<name>>

\* File paths are sequences of characters.
PathA == <<"p", "/", "a">>
PathB == <<"p", "/", "b">>
Paths == {PathA, PathB}

\* The order in which a dictionary keyed by path is iterated.
PathOrder == <<PathA, PathB>>

OrderedKeys(d) == SelectSeq(PathOrder, LAMBDA p : p \in DOMAIN d)

----------------------------------------------------------------------------
(* An invocation in progress: locals, requests sent, log lines, outcome *)

NewCall(h, se) ==
    [st |-> "running", exc |-> "", result |-> NoValue, status |-> "",
     requests |-> << >>, log |-> << >>,
     bound |-> {}, new_blobs_by_path |-> << >>, parent_sha |-> NoValue,
     new_tree |-> NoValue, new_commit |-> NoValue,
     host |-> h, setenvs |-> se]

Raise(s, e) == [s EXCEPT !.st = "raised", !.exc = e]

Return(s, r) == [s EXCEPT !.st = "returned", !.result = r]

Running(s) == s.st = "running"

Request(s, req) == [s EXCEPT !.requests = Append(@, req)]

action_log(s, msg) == [s EXCEPT !.log = Append(@, <<"log", msg>>)]

action_error(s, msg) == [s EXCEPT !.log = Append(@, <<"error", msg>>)]

\* Printing ::set-env changes the environment of the job's later steps, not
\* os.environ of the running process.
action_setenv(s, key, value) ==
    [s EXCEPT !.log = Append(@, <<"set-env", key, value>>),
              !.setenvs = (key :> value) @@ @]

\* repo(): the two assertions before the authenticated client is built.
RepoAvailable(e) == IsSet(e.GITHUB_TOKEN) /\ IsSet(e.GITHUB_REPOSITORY)

\* parent_sha(): SYNDICATE_SHA when set, else GITHUB_SHA.
parent_sha(e) ==
    IF ~IsSet(e.GITHUB_SHA) THEN [ok |-> FALSE, value |-> NoValue]
    ELSE [ok |-> TRUE,
          value |-> IF IsSet(e.SYNDICATE_SHA) THEN e.SYNDICATE_SHA
                    ELSE e.GITHUB_SHA]

----------------------------------------------------------------------------
(* The host's objects *)

\* Identifiers: a blob's is the hash of its content; trees and commits are
\* numbered as the host creates them.
BlobSha(content) == <<"blob", content>>

TreeSha(h) == <<"tree", Cardinality(h.trees) + 1>>

CommitSha(h) == <<"commit", Cardinality(h.commits) + 1>>

ParentsOf(h, sha) == {c.parent : c \in {d \in h.commits : d.sha = sha}}

RECURSIVE Descends(_, _, _, _)
\* sha is target or has target among its ancestors (n bounds the walk).
Descends(h, sha, target, n) ==
    \/ sha = target
    \/ /\ n > 0
       /\ \E p \in ParentsOf(h, sha) : Descends(h, p, target, n - 1)

FastForward(h, sha) == Descends(h, sha, h.ref, Cardinality(h.commits))

\* frontmatter.dumps: the header block between --- lines, then the body.
Dumps(post) == <<"---", post.metadata, "---", post.content>>

----------------------------------------------------------------------------
(* commit_updated_posts, statement by statement *)

\* Names assigned in the body of commit_updated_posts: Python makes each a
\* local variable of the function for the whole body.
CommitLocals == {"new_blobs_by_path", "parent_sha", "new_tree", "new_commit",
                 "response"}

\* Resolution as if the body never assigned the name.
ResolveNameGlobal(name, bound) == "global"

\* How a name read in the body is resolved.
ResolveName(name, bound) ==
    IF name \in CommitLocals
    THEN IF name \in bound THEN "local" ELSE "unbound"
    ELSE "global"

Bind(s, name) == [s EXCEPT !.bound = @ \cup {name}]

\* No early return for an empty batch.
EmptyCheckNever(s, batch) == s

EmptyCheck(s, batch) ==
    IF ~Running(s) THEN s
    ELSE IF DOMAIN batch = {}
    THEN Return(action_log(s, "All good: already marked."), NoValue)
    ELSE s

AssertEnv(s, e) ==
    IF ~Running(s) THEN s
    ELSE IF IsSet(e.GITHUB_TOKEN) /\ IsSet(e.GITHUB_REPOSITORY) /\ IsSet(e.GITHUB_REF)
    THEN s
    ELSE Raise(s, "AssertionError")

\* One repo().create_blob call: "ok" yields a new blob, "empty" yields '',
\* "raise" is an exception out of the client.
CreateBlob(s, e, path, post, resp) ==
    IF ~RepoAvailable(e) THEN Raise(s, "AssertionError")
    ELSE LET s1 == Request(s, [kind |-> "blob", path |-> path,
                                content |-> Dumps(post)])
         IN  CASE resp = "raise" -> Raise(s1, "HostError")
               [] resp = "empty" ->
                    [s1 EXCEPT !.new_blobs_by_path = @ @@ (path :> NoValue)]
               [] OTHER ->
                    [s1 EXCEPT
                       !.new_blobs_by_path = @ @@ (path :> BlobSha(Dumps(post)))]

RECURSIVE CreateBlobsFrom(_, _, _, _, _)
CreateBlobsFrom(s, e, batch, resp, todo) ==
    IF todo = << >> \/ s.st # "running" THEN s
    ELSE CreateBlobsFrom(
             CreateBlob(s, e, Head(todo), batch[Head(todo)], resp[Head(todo)]),
             e, batch, resp, Tail(todo))

CreateBlobs(s, e, batch, resp) ==
    IF ~Running(s) THEN s
    ELSE Bind(CreateBlobsFrom(s, e, batch, resp, OrderedKeys(batch)),
              "new_blobs_by_path")

\* parent_sha = parent_sha()
BindParentSha(s, e) ==
    LET how == ResolveName("parent_sha", s.bound)
    IN  CASE ~Running(s) -> s
          [] how = "unbound" -> Raise(s, "UnboundLocalError")
          [] how = "global" ->
               IF parent_sha(e).ok
               THEN Bind([s EXCEPT !.parent_sha = parent_sha(e).value],
                         "parent_sha")
               ELSE Raise(s, "AssertionError")
          [] OTHER -> Raise(s, "TypeError")

CreateTree(s, e, resp) ==
    IF ~Running(s) THEN s
    ELSE IF ~RepoAvailable(e) THEN Raise(s, "AssertionError")
    ELSE LET s1 == Request(s, [kind |-> "tree",
                                entries |-> s.new_blobs_by_path,
                                base_tree |-> s.parent_sha])
             sha == TreeSha(s.host)
         IN  CASE resp = "raise" -> Raise(s1, "HostError")
               [] resp = "none" -> Bind(s1, "new_tree")
               [] OTHER ->
                    Bind([s1 EXCEPT
                            !.new_tree = sha,
                            !.host.trees = @ \cup
                                {[sha |-> sha, base_tree |-> s.parent_sha,
                                  entries |-> s.new_blobs_by_path]}],
                         "new_tree")

CreateCommit(s, e, silos, resp) ==
    IF ~Running(s) THEN s
    ELSE IF ~RepoAvailable(e) THEN Raise(s, "AssertionError")
    ELSE IF s.new_tree = NoValue THEN Raise(s, "AttributeError")
    ELSE LET s1 == Request(s, [kind |-> "commit", message |-> silos,
                                tree |-> s.new_tree,
                                parents |-> <<s.parent_sha>>])
             sha == CommitSha(s.host)
         IN  CASE resp = "raise" -> Raise(s1, "HostError")
               [] resp = "none" -> Bind(s1, "new_commit")
               [] OTHER ->
                    Bind([s1 EXCEPT
                            !.new_commit = sha,
                            !.host.commits = @ \cup
                                {[sha |-> sha, tree |-> s.new_tree,
                                  parent |-> s.parent_sha]}],
                         "new_commit")

\* requests.put on the branch reference: the host moves the reference only
\* when it accepts the update and the update is a fast-forward.
UpdateRef(s, e, resp) ==
    IF ~Running(s) THEN s
    ELSE IF s.new_commit = NoValue THEN Raise(s, "AttributeError")
    ELSE LET s1 == Request(s, [kind |-> "ref", ref |-> e.GITHUB_REF,
                                sha |-> s.new_commit])
         IN  CASE resp = "raise" -> Raise(s1, "HostError")
               [] resp = "ok" /\ FastForward(s.host, s.new_commit) ->
                    Bind([s1 EXCEPT !.status = "200",
                                    !.host.ref = s.new_commit],
                         "response")
               [] OTHER -> Bind([s1 EXCEPT !.status = "422"], "response")

HandleResponse(s) ==
    IF ~Running(s) THEN s
    ELSE IF s.status = "200"
    THEN Return(action_log(action_setenv(s, "SYNDICATE_SHA", s.new_commit),
                           "Syndicate posts marked."),
                <<"response", s.status, s.new_commit>>)
    ELSE Return(action_error(s, "Failed to mark syndicated posts"), NoValue)

\* The whole call, on batch and silos, in environment e, host state h, with
\* the set-env commands se printed so far and the host answering as r says.
commit_updated_posts(batch, silos, e, h, se, r) ==
    HandleResponse(
      UpdateRef(
        CreateCommit(
          CreateTree(
            BindParentSha(
              CreateBlobs(
                AssertEnv(EmptyCheck(NewCall(h, se), batch), e),
                e, batch, r.blob),
              e),
            e, r.tree),
          e, silos, r.commit),
        e, r.ref))

----------------------------------------------------------------------------
(* Posts and their frontmatter *)

\* str.lower on the silo names in use.
Lower(silo) ==
    CASE silo = "DEV" -> "dev"
      [] silo = "Medium" -> "medium"
      [] OTHER -> silo

syndicate_key_for(silo) == Lower(silo) \o "_syndicate_id"

\* frontmatter.Post.get: the header's value, None when the key is absent.
PostGet(post, key) ==
    IF key \in DOMAIN post.metadata THEN post.metadata[key] ELSE "None"

syndicate_id_for(post, silo) == PostGet(post, syndicate_key_for(silo))

\* frontmatter.Post.to_dict: the header plus the body under 'content'.
ToDict(post) == ("content" :> post.content) @@ post.metadata

\* dict(d, **more): the keys of more replace those of d.
DictMerge(d, more) == more @@ d

\* frontmatter.Post(**d): 'content' is the body, the rest is the header.
PostFromDict(d) ==
    [metadata |-> [k \in DOMAIN d \ {"content", "handler"} |-> d[k]],
     content |-> d["content"]]

\* Every supplied silo is taken as not yet recorded.
EligibleAlways(post, silo) == TRUE

\* not syndicate_id_for(fronted_post, silo)
Eligible(post, silo) == ~Truthy(syndicate_id_for(post, silo))

\* The order in which a dictionary keyed by silo is iterated.
SiloOrder == <<"DEV", "Medium">>

RECURSIVE NewIdsFrom(_, _, _, _)
\* The inner loop of mark_syndicated_posts over (silo, sid): acc is
\* [ids, silos], the new header keys and the silos included so far.
NewIdsFrom(post, sids, todo, acc) ==
    IF todo = << >> THEN acc
    ELSE LET silo == Head(todo)
             next == IF Eligible(post, silo)
                     THEN [ids |-> (syndicate_key_for(silo) :> sids[silo])
                                       @@ acc.ids,
                           silos |-> acc.silos \cup {silo}]
                     ELSE acc
         IN  NewIdsFrom(post, sids, Tail(todo), next)

SilosOf(sids) == SelectSeq(SiloOrder, LAMBDA x : x \in DOMAIN sids)

RECURSIVE MarkLoop(_, _, _, _)
\* The outer loop over paths: acc is [st, updated, silos].
MarkLoop(ids, posts, todo, acc) ==
    IF todo = << >> \/ acc.st # "running" THEN acc
    ELSE LET path == Head(todo)
         IN  IF path \notin DOMAIN posts
             THEN [acc EXCEPT !.st = "raised"]
             ELSE LET new == NewIdsFrom(posts[path], ids[path],
                                        SilosOf(ids[path]),
                                        [ids |-> << >>, silos |-> acc.silos])
                      updated_post ==
                          PostFromDict(DictMerge(ToDict(posts[path]), new.ids))
                  IN  MarkLoop(ids, posts, Tail(todo),
                          IF DOMAIN new.ids = {}
                          THEN [acc EXCEPT !.silos = new.silos]
                          ELSE [acc EXCEPT
                                  !.silos = new.silos,
                                  !.updated = (path :> updated_post) @@ @])

\* mark_syndicated_posts: [batch, silos, call], the batch handed to
\* commit_updated_posts and that call's outcome.
mark_syndicated_posts(ids, posts, e, h, se, r) ==
    IF DOMAIN ids = {} \/ DOMAIN posts = {}
    THEN [batch |-> << >>, silos |-> {}, committed |-> FALSE,
          call |-> Raise(NewCall(h, se), "AssertionError")]
    ELSE LET m == MarkLoop(ids, posts, OrderedKeys(ids),
                           [st |-> "running", updated |-> << >>, silos |-> {}])
         IN  IF m.st = "raised"
             THEN [batch |-> << >>, silos |-> {}, committed |-> FALSE,
                   call |-> Raise(NewCall(h, se), "KeyError")]
             ELSE [batch |-> m.updated, silos |-> m.silos, committed |-> TRUE,
                   call |-> commit_updated_posts(m.updated, m.silos,
                                                 e, h, se, r)]

----------------------------------------------------------------------------
(* get_posts *)

StartsWith(str, prefix) ==
    /\ Len(prefix) <= Len(str)
    /\ SubSeq(str, 1, Len(prefix)) = prefix

\* get_trigger_payload: the files of the commit GITHUB_SHA names.
get_trigger_payload(s, e, resp) ==
    IF ~IsSet(e.GITHUB_SHA) \/ ~RepoAvailable(e) THEN Raise(s, "AssertionError")
    ELSE LET s1 == Request(s, [kind |-> "files", sha |-> e.GITHUB_SHA])
         IN  IF resp = "raise" THEN Raise(s1, "HostError") ELSE s1

\* assert files
AssertFiles(s, files) ==
    IF Running(s) /\ files = << >> THEN Raise(s, "AssertionError") ELSE s

\* file_contents: the file as of parent_sha().
file_contents(s, e, filename) ==
    IF ~RepoAvailable(e) \/ ~parent_sha(e).ok THEN Raise(s, "AssertionError")
    ELSE [Request(s, [kind |-> "contents", path |-> filename,
                      ref |-> parent_sha(e).value])
            EXCEPT !.result = Append(@, <<filename, parent_sha(e).value>>)]

\* The filter of the first comprehension.
InPostDir(file, post_dir) == StartsWith(file.filename, post_dir)

\* The filter of the second comprehension.
NotDeleted(file) == file.status # "deleted"

RECURSIVE FetchAll(_, _, _)
FetchAll(s, e, todo) ==
    IF todo = << >> \/ ~Running(s) THEN s
    ELSE FetchAll(file_contents(s, e, Head(todo).filename), e, Tail(todo))

get_posts(files, post_dir, e, h, se, resp) ==
    LET posts == SelectSeq(files, LAMBDA f : InPostDir(f, post_dir))
        s == FetchAll(AssertFiles(get_trigger_payload(NewCall(h, se), e, resp),
                                  files),
                      e, SelectSeq(posts, NotDeleted))
    IN  IF Running(s) THEN [s EXCEPT !.st = "returned"] ELSE s

----------------------------------------------------------------------------
(* Inputs *)

Header(title, ids) == ("title" :> title) @@ ids

HeadersA ==
    { Header("'t'", ids) :
        ids \in { << >>,
                  ("dev_syndicate_id" :> "0"),
                  ("dev_syndicate_id" :> "7"),
                  ("dev_syndicate_id" :> "7") @@ ("medium_syndicate_id" :> "9") } }

HeadersB ==
    { Header("'u'", ids) : ids \in { << >>, ("dev_syndicate_id" :> "7") } }

PostsOf(path) ==
    { [metadata |-> hd, content |-> "body"] :
        hd \in IF path = PathA THEN HeadersA ELSE HeadersB }

PostDicts(D) ==
    { f \in [D -> UNION {PostsOf(p) : p \in D}] : \A p \in D : f[p] \in PostsOf(p) }

\* fronted_posts_by_path: a post for every path, or none for PathB.
PostInputs ==
    PostDicts(Paths)
    \cup {(PathA :> [metadata |-> Header("'t'", << >>), content |-> "body"])}

SidsA ==
    { ("DEV" :> "None"), ("DEV" :> "42"), ("DEV" :> "42") @@ ("Medium" :> "43") }

SidsB == { ("DEV" :> "44") }

\* syndicate_ids_by_path
IdInputs ==
    { a @@ b :
        a \in {<< >>} \cup {(PathA :> x) : x \in SidsA},
        b \in {<< >>} \cup {(PathB :> x) : x \in SidsB} }

\* Batches handed to commit_updated_posts directly.
Batches ==
    { << >>,
      (PathA :> [metadata |-> Header("'t'", ("dev_syndicate_id" :> "42")),
                 content |-> "body"]),
      (PathA :> [metadata |-> Header("'t'", ("dev_syndicate_id" :> "42")),
                 content |-> "body"])
        @@ (PathB :> [metadata |-> Header("'u'", ("dev_syndicate_id" :> "44")),
                      content |-> "body"]) }

AllOk == [blob |-> [p \in Paths |-> "ok"], tree |-> "ok", commit |-> "ok",
          ref |-> "ok", files |-> "ok"]

\* How the host answers one invocation: every call succeeds, or one of them
\* fails in one of the ways the clients report a failure.
Responses ==
    {AllOk}
    \cup { [AllOk EXCEPT !.blob[p] = x] : p \in Paths, x \in {"empty", "raise"} }
    \cup { [AllOk EXCEPT !.tree = x] : x \in {"none", "raise"} }
    \cup { [AllOk EXCEPT !.commit = x] : x \in {"none", "raise"} }
    \cup { [AllOk EXCEPT !.ref = x] : x \in {"reject", "raise"} }

SiblingFile == <<"p", "x", "/", "a">>
OtherFile == <<"q", "/", "a">>
FileOrder == <<PathA, PathB, SiblingFile, OtherFile>>

StatusesOf(filename) ==
    CASE filename = PathA -> {"added", "deleted"}
      [] filename = PathB -> {"modified", "deleted"}
      [] filename = SiblingFile -> {"modified"}
      [] OTHER -> {"added"}

FileList(f) ==
    SelectSeq([i \in DOMAIN FileOrder |->
                  [filename |-> FileOrder[i],
                   status |-> IF FileOrder[i] \in DOMAIN f
                              THEN f[FileOrder[i]] ELSE "-"]],
              LAMBDA x : x.status # "-")

\* The files of the triggering commit, as the host lists them.
FileLists ==
    UNION { { FileList(f) :
                f \in { g \in [D -> {"added", "modified", "deleted"}] :
                          \A n \in D : g[n] \in StatusesOf(n) } } :
            D \in SUBSET {PathA, PathB, SiblingFile, OtherFile} }

\* SYNDICATE_POST_DIR
PostDirs == {<<"p">>, <<"p", "/">>}

----------------------------------------------------------------------------
(* State *)

\* The commit the job's steps use as parent: SYNDICATE_SHA as the job will
\* see it, else the triggering commit.
Cursor(e, se) ==
    IF "SYNDICATE_SHA" \in DOMAIN se THEN se["SYNDICATE_SHA"]
    ELSE IF IsSet(e.SYNDICATE_SHA) THEN e.SYNDICATE_SHA
    ELSE e.GITHUB_SHA

NoInputs ==
    [batch |-> << >>, silos |-> {}, ids |-> << >>, posts |-> << >>,
     files |-> << >>, post_dir |-> << >>, resp |-> AllOk, committed |-> FALSE]

Snapshot == [ref |-> host.ref, cursor |-> Cursor(env, setenvs),
             setenvs |-> setenvs, commits |-> host.commits]

\* What a later operation can be compared with: whether anything failed in
\* the call (a missing value, a host call), the commit it created, and
\* whether the step that made the call has ended.
Attempt(s, e, r) ==
    [made |-> TRUE,
     nothing_failed |-> (\A n \in RequiredNames : IsSet(e[n])) /\ r = AllOk,
     st |-> s.st, new_commit |-> s.new_commit, step_ended |-> FALSE]

\* No silo call made, no job output added.
SiloIdle == [op |-> "idle", pc |-> "done"]

JobIdle == [calls |-> << >>]

Done(op, s, in) == [op |-> op, call |-> s, in |-> in, pre |-> Snapshot]

Init ==
    /\ \E missing \in {m \in SUBSET RequiredNames : Cardinality(m) <= 1} :
         env = [n \in EnvNames |->
                  IF n \in missing \/ n \notin RequiredNames
                  THEN NoValue ELSE EnvValue(n)]
    /\ setenvs = << >>
    /\ host = [ref |-> TriggerSha, commits |-> {}, trees |-> {}]
    /\ attempt = [made |-> FALSE, nothing_failed |-> FALSE, st |-> "",
                  new_commit |-> NoValue, step_ended |-> FALSE]
    /\ last = [op |-> "none", call |-> NewCall(host, setenvs), in |-> NoInputs,
               pre |-> Snapshot]
    /\ client = SiloIdle
    /\ job = JobIdle

CommitUpdatedPosts ==
    /\ Cardinality(host.commits) < MaxCommits
    /\ \E batch \in Batches, r \in Responses :
       \E s \in {commit_updated_posts(batch, {"DEV"}, env, host, setenvs, r)} :
         /\ host' = s.host
         /\ setenvs' = s.setenvs
         /\ attempt' = IF DOMAIN batch = {} THEN attempt
                        ELSE Attempt(s, env, r)
         /\ last' = Done("commit_updated_posts", s,
                         [NoInputs EXCEPT !.batch = batch, !.silos = {"DEV"},
                                          !.resp = r, !.committed = TRUE])
    /\ UNCHANGED <<env, client, job>>

MarkSyndicatedPosts ==
    /\ Cardinality(host.commits) < MaxCommits
    /\ \E ids \in IdInputs, posts \in PostInputs, r \in {AllOk} :
       \E m \in {mark_syndicated_posts(ids, posts, env, host, setenvs, r)} :
         /\ host' = m.call.host
         /\ setenvs' = m.call.setenvs
         /\ attempt' = IF m.committed /\ DOMAIN m.batch # {}
                        THEN Attempt(m.call, env, r) ELSE attempt
         /\ last' = Done("mark_syndicated_posts", m.call,
                         [NoInputs EXCEPT !.batch = m.batch, !.silos = m.silos,
                                          !.ids = ids, !.posts = posts,
                                          !.resp = r,
                                          !.committed = m.committed])
    /\ UNCHANGED <<env, client, job>>

GetPosts ==
    /\ \E files \in FileLists, post_dir \in PostDirs, x \in {"ok", "raise"} :
         /\ x = "raise" => files = << >>
         /\ last' = Done("get_posts",
                         get_posts(files, post_dir, env, host, setenvs, x),
                         [NoInputs EXCEPT !.files = files,
                                          !.post_dir = post_dir,
                                          !.resp = [AllOk EXCEPT !.files = x]])
    /\ UNCHANGED <<env, setenvs, host, attempt, client, job>>

ParentSha ==
    /\ LET v == parent_sha(env)
           s == NewCall(host, setenvs)
       IN  last' = Done("parent_sha",
                        IF v.ok THEN Return(s, v.value)
                        ELSE Raise(s, "AssertionError"),
                        NoInputs)
    /\ UNCHANGED <<env, setenvs, host, attempt, client, job>>

\* The runner starts the job's next step: the variables set with ::set-env
\* by the step that ended are in the new process's environment.
NextStep ==
    /\ env' = [n \in EnvNames |-> IF n \in DOMAIN setenvs THEN setenvs[n]
                                  ELSE env[n]]
    /\ setenvs' = << >>
    /\ last' = Done("next_step", NewCall(host, << >>), NoInputs)
    /\ attempt' = [attempt EXCEPT !.step_ended = attempt.made]
    /\ UNCHANGED <<host, client, job>>

\* The commits of the host that another writer pushed.
PushedCommits(h) == {c \in h.commits : c.sha[1] = "pushed"}

\* Another writer pushes a commit on top of the branch. The job's steps read
\* the cursor from their environment, which the push does not change, so a
\* push at any moment before a call's reference update is a push before
\* the call.
OtherWriterPush ==
    /\ Cardinality(PushedCommits(host)) < MaxPushes
    /\ host' = [host EXCEPT
                   !.ref = <<"pushed", Cardinality(PushedCommits(host)) + 1>>,
                   !.commits = @ \cup
                       {[sha |-> <<"pushed",
                                   Cardinality(PushedCommits(host)) + 1>>,
                         tree |-> <<"tree", 0>>, parent |-> host.ref]}]
    /\ last' = Done("push", NewCall(host', setenvs), NoInputs)
    /\ UNCHANGED <<env, setenvs, attempt, client, job>>

Next ==
    \/ CommitUpdatedPosts
    \/ MarkSyndicatedPosts
    \/ GetPosts
    \/ ParentSha
    \/ NextStep
    \/ OtherWriterPush

Spec == Init /\ [][Next]_vars

----------------------------------------------------------------------------
(* What the last operation did *)

\* commit_updated_posts ran, called directly or by mark_syndicated_posts.
InvokedCommit ==
    /\ last.op \in {"commit_updated_posts", "mark_syndicated_posts"}
    /\ last.in.committed

NonEmptyBatch == DOMAIN last.in.batch # {}

EnvAllSet == \A n \in RequiredNames : IsSet(env[n])

RequestsOfKind(kinds) ==
    {i \in DOMAIN last.call.requests : last.call.requests[i].kind \in kinds}

RefAndCursorUnchanged ==
    /\ host.ref = last.pre.ref
    /\ Cursor(env, setenvs) = last.pre.cursor
    /\ setenvs = last.pre.setenvs

IntendedEntries == [p \in DOMAIN last.in.batch |-> BlobSha(Dumps(last.in.batch[p]))]

\* The branch points to the one commit this call created, whose tree holds
\* every blob of the batch at its path.
OneCommitWithAllBlobs ==
    \E c \in host.commits :
        /\ host.commits \ last.pre.commits = {c}
        /\ host.ref = c.sha
        /\ \E tr \in host.trees :
              /\ tr.sha = c.tree
              /\ \A p \in DOMAIN last.in.batch :
                    /\ p \in DOMAIN tr.entries
                    /\ tr.entries[p] = IntendedEntries[p]

Logged(line) == \E i \in DOMAIN last.call.log : last.call.log[i] = line

----------------------------------------------------------------------------
(* C1..C10 *)

\* C1: when commit_updated_posts ends on a non-empty batch, either the
\* branch points to exactly one new commit holding every blob of the batch,
\* or the branch reference and the Commit Cursor are as before the call.
C1_Atomicity ==
    (InvokedCommit /\ NonEmptyBatch) =>
        (OneCommitWithAllBlobs \/ RefAndCursorUnchanged)

\* A call on a two-post batch that created its blobs and then failed.
C1_Witness ==
    /\ InvokedCommit
    /\ Cardinality(DOMAIN last.in.batch) > 1
    /\ Cardinality(RequestsOfKind({"blob"})) > 1
    /\ last.call.st = "raised"
    /\ RefAndCursorUnchanged

\* C2: on a non-empty batch, with every required value set and the host
\* accepting every call, commit_updated_posts sends the reference update,
\* prints one set-env of SYNDICATE_SHA to the new commit and returns the
\* reference update's response.
C2_SuccessAdvancesCursor ==
    (InvokedCommit /\ NonEmptyBatch /\ EnvAllSet /\ last.in.resp = AllOk) =>
        /\ last.call.st = "returned"
        /\ IsSet(last.call.new_commit)
        /\ RequestsOfKind({"ref"}) # {}
        /\ last.call.result = <<"response", "200", last.call.new_commit>>
        /\ Cursor(env, setenvs) = last.call.new_commit
        /\ Cardinality({i \in DOMAIN last.call.log :
                           last.call.log[i][1] = "set-env"}) = 1

\* C3: when the host rejects the reference update, commit_updated_posts logs
\* an error and returns None, prints no set-env, and the branch keeps its
\* value while the commit it created stays unreferenced.
C3_RejectedUpdate ==
    (InvokedCommit /\ NonEmptyBatch /\ EnvAllSet
        /\ last.in.resp = [AllOk EXCEPT !.ref = "reject"]) =>
        /\ last.call.st = "returned"
        /\ last.call.result = NoValue
        /\ Logged(<<"error", "Failed to mark syndicated posts">>)
        /\ RefAndCursorUnchanged
        /\ IsSet(last.call.new_commit)
        /\ host.ref # last.call.new_commit

\* C4: on an empty batch commit_updated_posts sends no request, reads no
\* required value (it returns even when one is missing), changes neither
\* the cursor nor the branch, logs the already-marked line and returns None.
C4_EmptyBatchNoOp ==
    (InvokedCommit /\ ~NonEmptyBatch) =>
        /\ last.call.requests = << >>
        /\ last.call.st = "returned"
        /\ last.call.result = NoValue
        /\ last.call.log = << <<"log", "All good: already marked.">> >>
        /\ RefAndCursorUnchanged
        /\ host.commits = last.pre.commits

\* An empty batch, committed while GITHUB_TOKEN is missing.
C4_Witness ==
    /\ InvokedCommit
    /\ ~NonEmptyBatch
    /\ ~IsSet(env.GITHUB_TOKEN)
    /\ last.call.st = "returned"

SuppliedKeys(path) ==
    {syndicate_key_for(silo) : silo \in DOMAIN last.in.ids[path]}

MarkedPosts ==
    IF last.op = "mark_syndicated_posts" /\ last.in.committed
    THEN DOMAIN last.in.batch ELSE {}

\* C5: in the batch mark_syndicated_posts commits, every key of a post's
\* original header keeps exactly its original value, whatever it is, the
\* keys added are syndicate keys absent from the original header, and the
\* body is the original body.
C5_MergeLaw ==
    \A path \in MarkedPosts :
        LET old == last.in.posts[path]
            new == last.in.batch[path]
        IN  /\ \A k \in DOMAIN old.metadata :
                  /\ k \in DOMAIN new.metadata
                  /\ new.metadata[k] = old.metadata[k]
            /\ DOMAIN new.metadata \ DOMAIN old.metadata \subseteq SuppliedKeys(path)
            /\ new.content = old.content

\* C5 as the code has it: a key keeps its original value unless it is the
\* syndicate key of a supplied silo and its original value is falsy; then it
\* carries the supplied identifier.
C5_MergeLawTruthy ==
    \A path \in MarkedPosts :
        LET old == last.in.posts[path]
            new == last.in.batch[path]
        IN  /\ \A k \in DOMAIN old.metadata :
                  /\ k \in DOMAIN new.metadata
                  /\ new.metadata[k] # old.metadata[k] =>
                        /\ ~Truthy(old.metadata[k])
                        /\ \E silo \in DOMAIN last.in.ids[path] :
                              /\ k = syndicate_key_for(silo)
                              /\ new.metadata[k] = last.in.ids[path][silo]
            /\ DOMAIN new.metadata \ DOMAIN old.metadata \subseteq SuppliedKeys(path)
            /\ new.content = old.content

\* A post in the batch that kept a recorded identifier and gained another.
C5_Witness ==
    \E path \in MarkedPosts :
        LET old == last.in.posts[path]
            new == last.in.batch[path]
        IN  /\ "dev_syndicate_id" \in DOMAIN old.metadata
            /\ Truthy(old.metadata["dev_syndicate_id"])
            /\ "DEV" \in DOMAIN last.in.ids[path]
            /\ new.metadata["dev_syndicate_id"] = old.metadata["dev_syndicate_id"]
            /\ "medium_syndicate_id" \in DOMAIN new.metadata \ DOMAIN old.metadata

\* Marking again, with the same identifiers, the posts as the first marking
\* left them.
SecondMarking ==
    mark_syndicated_posts(last.in.ids, last.in.batch @@ last.in.posts,
                          env, host, setenvs, AllOk)

\* C6: mark_syndicated_posts never writes the key of a silo the post
\* already has a record for; when every supplied pair is recorded nothing
\* enters the batch and no request is sent; and marking the result of a
\* first marking in which no value was missing and no host call failed
\* leaves the batch empty and sends no request.
C6_IdempotentMarking ==
    (last.op = "mark_syndicated_posts" /\ last.in.committed) =>
        /\ \A path \in DOMAIN last.in.ids :
             \A silo \in DOMAIN last.in.ids[path] :
                Truthy(syndicate_id_for(last.in.posts[path], silo)) =>
                    \/ path \notin DOMAIN last.in.batch
                    \/ syndicate_id_for(last.in.batch[path], silo)
                         = syndicate_id_for(last.in.posts[path], silo)
        /\ (\A path \in DOMAIN last.in.ids :
              \A silo \in DOMAIN last.in.ids[path] :
                 Truthy(syndicate_id_for(last.in.posts[path], silo)))
           => (~NonEmptyBatch /\ last.call.requests = << >>)
        /\ EnvAllSet =>
              /\ DOMAIN SecondMarking.batch = {}
              /\ SecondMarking.call.requests = << >>

\* C7: once commit_updated_posts has run with nothing failing, parent_sha()
\* returns the identifier of the commit that call created.
C7_CursorReadConsistency ==
    (last.op = "parent_sha" /\ attempt.made /\ attempt.nothing_failed) =>
        /\ IsSet(attempt.new_commit)
        /\ last.call.st = "returned"
        /\ last.call.result = attempt.new_commit

\* C8: in a call where nothing fails the requests are the blobs, then the
\* tree carrying exactly those blobs, then the commit carrying that tree,
\* then the reference update carrying that commit.
C8_StepOrder ==
    (InvokedCommit /\ NonEmptyBatch /\ EnvAllSet /\ last.in.resp = AllOk) =>
        LET rq == last.call.requests
            n == Cardinality(DOMAIN last.in.batch)
        IN  /\ Len(rq) = n + 3
            /\ \A i \in 1..n : rq[i].kind = "blob"
            /\ rq[n + 1].kind = "tree"
            /\ rq[n + 1].entries = IntendedEntries
            /\ rq[n + 2].kind = "commit"
            /\ rq[n + 2].tree = last.call.new_tree
            /\ rq[n + 3].kind = "ref"
            /\ rq[n + 3].sha = last.call.new_commit

\* A request of one of the kinds was sent and the host failed it.
FailedRequest(kinds) ==
    \E i \in RequestsOfKind(kinds) :
        LET rq == last.call.requests[i]
        IN  CASE rq.kind = "blob" -> last.in.resp.blob[rq.path] # "ok"
              [] rq.kind = "tree" -> last.in.resp.tree # "ok"
              [] rq.kind = "commit" -> last.in.resp.commit # "ok"
              [] OTHER -> FALSE

\* C9: after a failed blob, tree or commit creation commit_updated_posts
\* sends no request of a later step, and the branch reference and the
\* Commit Cursor stay as they were.
C9_FailureStopsLaterSteps ==
    InvokedCommit =>
        /\ FailedRequest({"blob"}) => RequestsOfKind({"tree", "commit", "ref"}) = {}
        /\ FailedRequest({"tree"}) => RequestsOfKind({"commit", "ref"}) = {}
        /\ FailedRequest({"commit"}) => RequestsOfKind({"ref"}) = {}
        /\ FailedRequest({"blob", "tree", "commit"}) => RefAndCursorUnchanged

\* The first blob creation of a two-post batch yielded no identifier.
C9_Witness ==
    /\ InvokedCommit
    /\ FailedRequest({"blob"})
    /\ last.in.resp.blob[PathA] = "empty"
    /\ Cardinality(DOMAIN last.in.batch) > 1
    /\ last.call.st = "raised"

\* filename lies under the directory post_dir.
UnderDir(filename, post_dir) ==
    IF post_dir # << >> /\ post_dir[Len(post_dir)] = "/"
    THEN StartsWith(filename, post_dir)
    ELSE StartsWith(filename, post_dir \o <<"/">>)

\* C10: get_posts fetches, once each, exactly the files of the triggering
\* commit that lie under the posts directory and are not deleted.
C10_FetchedFiles ==
    (last.op = "get_posts" /\ last.call.st = "returned") =>
        [i \in DOMAIN last.call.result |-> last.call.result[i][1]]
          = [i \in DOMAIN SelectSeq(last.in.files,
                      LAMBDA f : UnderDir(f.filename, last.in.post_dir)
                                 /\ f.status # "deleted")
              |-> SelectSeq(last.in.files,
                      LAMBDA f : UnderDir(f.filename, last.in.post_dir)
                                 /\ f.status # "deleted")[i].filename]


----------------------------------------------------------------------------
(* The silo client (syndicate/silos/dev.py): fetch and draft *)

\* The longest listing, in pages, before the pages that are empty for good.
MaxPages == 2

\* A post as the silo's API lists it.
SiloPost(id) == [id |-> id]

\* What one page of the listing may hold.
PageContents ==
    {<< >>, <<SiloPost("13")>>, <<SiloPost("14")>>,
     <<SiloPost("14"), SiloPost("13")>>}

\* A listing: its pages in order; every later page is empty.
Listings == UNION {[1..n -> PageContents] : n \in 0..MaxPages}

\* GET /articles/me/all?page=N
get_page(listing, page) ==
    IF page \in DOMAIN listing THEN listing[page] ELSE << >>

\* Every page is taken as holding posts.
PageIsLastNever(posts) == FALSE

\* The page that ends the pagination: the one with zero results.
PageIsLast(posts) == Len(posts) = 0

\* Every post of the page is taken as a match.
MatchesAny(posts, post_id) == posts

\* The posts of a page whose id is the requested one.
Matches(posts, post_id) == SelectSeq(posts, LAMBDA p : p.id = post_id)

\* What a call of the client returns: None, one post, a list of posts, or
\* the id the silo gave.
ReturnsNone == [kind |-> "None", post |-> SiloPost("None"), posts |-> << >>,
                id |-> "None"]

ReturnsPost(post) == [ReturnsNone EXCEPT !.kind = "post", !.post = post]

ReturnsPosts(posts) == [ReturnsNone EXCEPT !.kind = "posts", !.posts = posts]

ReturnsId(id) == [ReturnsNone EXCEPT !.kind = "id", !.id = id]

\* bool(result)
ResultTruthy(r) ==
    CASE r.kind = "post" -> TRUE
      [] r.kind = "posts" -> r.posts # << >>
      [] r.kind = "id" -> Truthy(r.id)
      [] OTHER -> FALSE

\* A call of the client before its first statement.
NewSiloCall(op) ==
    [op |-> op, pc |-> "start", st |-> "running", exc |-> "",
     result |-> ReturnsNone, requests |-> << >>, log |-> << >>,
     api_key |-> NoValue, post_id |-> "None", listing |-> << >>,
     page |-> 1, results |-> << >>, post |-> "None", status |-> 0]

SiloRaise(c, exc) == [c EXCEPT !.pc = "done", !.st = "raised", !.exc = exc]

SiloReturn(c, v) == [c EXCEPT !.pc = "done", !.st = "returned", !.result = v]

\* fetch(post_id, api_key), up to its first page request.
fetch(post_id, api_key, listing) ==
    LET c == [NewSiloCall("fetch") EXCEPT !.api_key = api_key,
                                          !.post_id = post_id,
                                          !.listing = listing]
    IN  IF ~IsSet(api_key) THEN SiloRaise(c, "AssertionError")
        ELSE [c EXCEPT !.pc = "paging"]

\* One turn of the pagination loop: request the page, stop on an empty
\* page or on a match, else keep the page's posts and go to the next page.
fetch_page(c) ==
    LET posts == get_page(c.listing, c.page)
        c1 == [c EXCEPT !.requests = Append(@, [kind |-> "page",
                                                page |-> c.page])]
        found == IF Truthy(c.post_id) THEN Matches(posts, c.post_id)
                 ELSE << >>
    IN  IF PageIsLast(posts)
        THEN IF Truthy(c.post_id) THEN SiloReturn(c1, ReturnsNone)
             ELSE SiloReturn(c1, ReturnsPosts(c1.results))
        ELSE IF Len(found) > 0 THEN SiloReturn(c1, ReturnsPost(Head(found)))
        ELSE [c1 EXCEPT !.results = @ \o posts, !.page = @ + 1]

\* Every status is taken as a success.
IsSuccessAlways(status) == TRUE

\* A status of the 2xx family.
IsSuccess(status) == status \div 100 = 2

\* draft(post, api_key), the silo answering with resp = [status, id, body].
draft(post, api_key, resp) ==
    LET c == [NewSiloCall("draft") EXCEPT !.api_key = api_key,
                                          !.post = post,
                                          !.status = resp.status]
    IN  IF ~IsSet(api_key) THEN SiloRaise(c, "AssertionError")
        ELSE IF ~Truthy(post) THEN SiloRaise(c, "AssertionError")
        ELSE LET c1 == [c EXCEPT !.requests =
                            Append(@, [kind |-> "draft", post |-> post])]
             IN  IF IsSuccess(resp.status)
                 THEN SiloReturn(c1, ReturnsId(resp.id))
                 ELSE SiloReturn([c1 EXCEPT !.log = Append(@, resp.body)],
                                 ReturnsNone)

\* Inputs of the client.
ApiKeys == {NoValue, <<"k">>}

RequestedIds == {"None", "13"}

DraftPosts == {"None", "''", "post"}

\* The silo's answers: the status, and the id and the text its body holds.
DraftResponses ==
    {[status |-> s, id |-> "42", body |-> "error"] :
        s \in {200, 201, 204, 301, 422, 500}}

SiloInit ==
    /\ Init
    /\ env = [n \in EnvNames |-> IF n \in RequiredNames THEN EnvValue(n)
                                 ELSE NoValue]

Fetch ==
    /\ client.op = "idle"
    /\ \E post_id \in RequestedIds, api_key \in ApiKeys, listing \in Listings :
           client' = fetch(post_id, api_key, listing)
    /\ UNCHANGED <<env, setenvs, host, attempt, last, job>>

\* The loop leaves a listing of MaxPages pages at page MaxPages + 1.
FetchPage ==
    /\ client.op = "fetch"
    /\ client.pc = "paging"
    /\ client.page <= MaxPages + 1
    /\ client' = fetch_page(client)
    /\ UNCHANGED <<env, setenvs, host, attempt, last, job>>

Draft ==
    /\ client.op = "idle"
    /\ \E post \in DraftPosts, api_key \in ApiKeys, resp \in DraftResponses :
           client' = draft(post, api_key, resp)
    /\ UNCHANGED <<env, setenvs, host, attempt, last, job>>

SiloNext ==
    \/ Fetch
    \/ FetchPage
    \/ Draft

\* The loop is one thread of control: it takes its next turn whenever the
\* silo has answered.
SiloSpec == SiloInit /\ [][SiloNext]_vars /\ WF_vars(FetchPage)

----------------------------------------------------------------------------
(* C11..C13 *)

\* The pages of the call's listing before its first empty page.
RECURSIVE PagesBeforeEmpty(_)
PagesBeforeEmpty(listing) ==
    IF listing = << >> \/ Len(Head(listing)) = 0 THEN << >>
    ELSE <<Head(listing)>> \o PagesBeforeEmpty(Tail(listing))

\* The ids listed before the first empty page.
IdsBeforeEmpty(listing) ==
    LET pages == PagesBeforeEmpty(listing)
    IN  UNION {{pages[i][j].id : j \in DOMAIN pages[i]} : i \in DOMAIN pages}

FetchById ==
    /\ client.op = "fetch"
    /\ client.pc = "done"
    /\ IsSet(client.api_key)
    /\ Truthy(client.post_id)

\* C11: fetch(id) with a credential ends without raising; it returns the
\* post with the requested id when that id is listed on a page before the
\* first empty page, and None otherwise; it never returns a post with
\* another id.
C11_FetchById ==
    FetchById =>
        /\ client.st = "returned"
        /\ IF client.post_id \in IdsBeforeEmpty(client.listing)
           THEN client.result = ReturnsPost(SiloPost(client.post_id))
           ELSE client.result = ReturnsNone

\* A match found on the second page, behind a post with another id.
C11_Witness ==
    /\ FetchById
    /\ Len(client.requests) = 2
    /\ client.result = ReturnsPost(SiloPost("13"))
    /\ client.listing[1] = <<SiloPost("14")>>

\* The page numbers requested so far.
PagesRequested == [i \in DOMAIN client.requests |-> client.requests[i].page]

\* The page that stops the loop: empty, or holding the requested id.
StopsAt(page) ==
    LET posts == get_page(client.listing, page)
    IN  \/ Len(posts) = 0
        \/ /\ Truthy(client.post_id)
           /\ \E j \in DOMAIN posts : posts[j].id = client.post_id

C12_PagesInOrder ==
    (client.op = "fetch") =>
        /\ PagesRequested = [i \in DOMAIN client.requests |-> i]
        /\ \A i \in DOMAIN client.requests :
               StopsAt(i) => /\ i = Len(client.requests)
                             /\ client.pc = "done"

\* C12: fetch requests pages 1, 2, ... in order, stops at the first page
\* that is empty or holds the requested id, requests no page after it, and
\* so ends on every listing that has an empty page.
C12_PaginationEnds ==
    /\ [](C12_PagesInOrder)
    /\ (client.op = "fetch") ~> (client.op = "fetch" /\ client.pc = "done")

\* A listing of all posts that ended on the empty third page.
C12_Witness ==
    /\ client.op = "fetch"
    /\ client.pc = "done"
    /\ Len(client.requests) = 3
    /\ Len(client.results) = 3

\* C13: draft with a credential and a post returns the silo's id, a truthy
\* value, on a 2xx status and a falsy value on every other status; without
\* a credential or without a post it raises an assertion error and sends
\* no request.
C13_DraftOutcome ==
    (client.op = "draft") =>
        IF IsSet(client.api_key) /\ Truthy(client.post)
        THEN /\ client.st = "returned"
             /\ Len(client.requests) = 1
             /\ ResultTruthy(client.result) <=> (client.status \in 200..299)
             /\ ResultTruthy(client.result) => client.result.kind = "id"
        ELSE /\ client.st = "raised"
             /\ client.exc = "AssertionError"
             /\ client.requests = << >>

\* A draft refused by the silo with status 422.
C13_Witness ==
    /\ client.op = "draft"
    /\ client.st = "returned"
    /\ client.status = 422
    /\ client.result = ReturnsNone
    /\ client.log = <<"error">>


----------------------------------------------------------------------------
(* C14..C18 *)

\* C14: commit_updated_posts on a non-empty batch with GITHUB_TOKEN,
\* GITHUB_REPOSITORY, GITHUB_REF or GITHUB_SHA missing raises before it
\* sends any request, and get_posts on an empty list of changed files
\* raises before it fetches any file's content.
C14_PreconditionsFirst ==
    /\ (InvokedCommit /\ NonEmptyBatch /\ ~EnvAllSet) =>
           /\ last.call.st = "raised"
           /\ last.call.requests = << >>
    /\ (last.op = "get_posts" /\ last.in.files = << >>) =>
           /\ last.call.st = "raised"
           /\ RequestsOfKind({"contents"}) = {}

\* The paths get_posts returned, in order.
ReturnedPaths == [i \in DOMAIN last.call.result |-> last.call.result[i][1]]

\* The changed files get_posts keeps: under the post directory, not deleted.
RetainedPaths ==
    LET kept == SelectSeq(last.in.files,
                    LAMBDA f : InPostDir(f, last.in.post_dir) /\ NotDeleted(f))
    IN  [i \in DOMAIN kept |-> kept[i].filename]

\* C15: get_posts lists the changed files of the commit GITHUB_SHA names
\* and reads every file it keeps at the Commit Cursor; in a step after one
\* whose commit_updated_posts ran with nothing failing, it returns the same
\* paths, read at a commit the job created.
C15_PostsAtCursor ==
    (last.op = "get_posts" /\ last.call.st = "returned") =>
        /\ RequestsOfKind({"files"}) = {1}
        /\ last.call.requests[1].sha = env.GITHUB_SHA
        /\ ReturnedPaths = RetainedPaths
        /\ \A i \in RequestsOfKind({"contents"}) :
              last.call.requests[i].ref = Cursor(env, << >>)
        /\ (attempt.made /\ attempt.nothing_failed /\ attempt.step_ended) =>
              \A i \in DOMAIN last.call.result :
                 \E c \in host.commits \ PushedCommits(host) :
                     last.call.result[i][2] = c.sha

\* The silos whose supplied id for the post is None or falsy.
FalsySilos(path) ==
    {silo \in DOMAIN last.in.ids[path] : ~Truthy(last.in.ids[path][silo])}

\* C16: in the batch mark_syndicated_posts commits, no post gains the key of
\* a silo whose supplied id is None or falsy, and a post whose supplied ids
\* are all None or falsy is not in the batch.
C16_FalsyNotRecorded ==
    (last.op = "mark_syndicated_posts" /\ last.in.committed) =>
        \A path \in DOMAIN last.in.ids :
            /\ \A silo \in FalsySilos(path) :
                  path \in MarkedPosts =>
                     (syndicate_key_for(silo)
                          \in DOMAIN last.in.batch[path].metadata
                      => syndicate_key_for(silo)
                          \in DOMAIN last.in.posts[path].metadata)
            /\ FalsySilos(path) = DOMAIN last.in.ids[path] =>
                  path \notin MarkedPosts

\* A call of commit_updated_posts on a non-empty batch in which no value
\* is missing and the host fails no call.
CommitWithNothingFailing ==
    InvokedCommit /\ NonEmptyBatch /\ EnvAllSet /\ last.in.resp = AllOk

\* The commits the job's calls created.
JobCommits == host.commits \ PushedCommits(host)

\* C17: a call of commit_updated_posts in which nothing fails creates one
\* commit, whose only parent is the Commit Cursor the call read and whose
\* tree has that cursor as base; the commits the job created form one chain
\* that starts at the triggering commit.
C17_ParentLinkage ==
    /\ CommitWithNothingFailing =>
          \E c \in JobCommits :
              /\ host.commits \ last.pre.commits = {c}
              /\ c.parent = parent_sha(env).value
              /\ \E i \in RequestsOfKind({"commit"}) :
                    last.call.requests[i].parents = <<parent_sha(env).value>>
              /\ \E tr \in host.trees :
                    /\ tr.sha = c.tree
                    /\ tr.base_tree = c.parent
    /\ \A c \in JobCommits :
          /\ Descends(host, c.sha, TriggerSha, Cardinality(host.commits))
          /\ \A d \in JobCommits : d.parent = c.parent => d = c

\* C18: when another writer has moved the branch past the cursor the call
\* reads, the call's one reference update is rejected, the branch stays at
\* the other writer's commit, and the call gives up: it logs the error,
\* returns nothing, sets no cursor and sends no second tree, commit or
\* reference request.
C18_ConcurrentWriter ==
    (CommitWithNothingFailing /\ last.pre.ref # parent_sha(env).value) =>
        /\ Cardinality(RequestsOfKind({"ref"})) = 1
        /\ Cardinality(RequestsOfKind({"tree"})) = 1
        /\ Cardinality(RequestsOfKind({"commit"})) = 1
        /\ last.call.status = "422"
        /\ host.ref = last.pre.ref
        /\ last.call.st = "returned"
        /\ last.call.result = NoValue
        /\ setenvs = last.pre.setenvs


----------------------------------------------------------------------------
(* The job's output: job_addoutput and job_getoutput *)

\* The most job_addoutput calls in a job.
MaxCalls == 2

\* json.dumps and json.loads on dictionaries keyed by strings.
json_dumps(d) == <<"json", d>>

json_loads(str) == str[2]

\* dict.update: every top-level key of results takes results' value.
dict_update(d, results) ==
    [k \in DOMAIN d \cup DOMAIN results |->
        IF k \in DOMAIN results THEN results[k] ELSE d[k]]

\* job_getoutput: SYNDICATE_POSTS of the process's environment, '{}' when
\* it is not there.
job_getoutput(e) ==
    json_loads(IF IsSet(e.SYNDICATE_POSTS) THEN e.SYNDICATE_POSTS
               ELSE json_dumps(<< >>))

job_addoutput(s, e, results) ==
    LET syndicated_posts == dict_update(job_getoutput(e), results)
    IN  Return(action_setenv(s, "SYNDICATE_POSTS",
                             json_dumps(syndicated_posts)),
               NoValue)

\* Results as the steps add them: silo, then path, then the id given.
ResultInputs ==
    {silo :> (path :> "42") : silo \in {"DEV", "Medium"}, path \in Paths}

\* A call's results, and whether a call of the same step came before it.
JobAddOutput ==
    /\ Len(job.calls) < MaxCalls
    /\ \E results \in ResultInputs :
       \E s \in {job_addoutput(NewCall(host, setenvs), env, results)} :
         /\ setenvs' = s.setenvs
         /\ last' = Done("job_addoutput", s, NoInputs)
         /\ job' = [job EXCEPT !.calls =
                       Append(@, [results |-> results,
                                  later_in_step |->
                                      "SYNDICATE_POSTS" \in DOMAIN setenvs])]
    /\ UNCHANGED <<env, host, attempt, client>>

JobNext ==
    \/ JobAddOutput
    \/ NextStep

JobSpec == Init /\ [][JobNext]_vars

----------------------------------------------------------------------------
(* C19 *)

\* SYNDICATE_POSTS as the job's next step will read it.
JobOutput ==
    IF "SYNDICATE_POSTS" \in DOMAIN setenvs
    THEN json_loads(setenvs["SYNDICATE_POSTS"])
    ELSE job_getoutput(env)

HasEntry(d, silo, path, id) ==
    /\ silo \in DOMAIN d
    /\ path \in DOMAIN d[silo]
    /\ d[silo][path] = id

\* C19: after any sequence of job_addoutput calls, in one step or across
\* steps, SYNDICATE_POSTS holds every entry any of the calls added, also
\* when a later call added an entry under the same top-level key and
\* another nested key.
C19_OutputAccumulates ==
    \A i \in DOMAIN job.calls :
        \A silo \in DOMAIN job.calls[i].results :
            \A path \in DOMAIN job.calls[i].results[silo] :
                HasEntry(JobOutput, silo, path,
                         job.calls[i].results[silo][path])

============================================================================
